---------------------------- MODULE Spec2Model ----------------------------
(***************************************************************************)
(* Model of src/src/makecorner/makecorner.py: the quantile summarizer      *)
(* getBounds and the grid plot composer corner.                            *)
(*                                                                         *)
(* Numbers.  Sample values are integers.  np.median of an even-sized       *)
(* integer vector is a half-integer, so the three values getBounds returns *)
(* are carried in units of one half: med2 = 2*med, upperError2 =           *)
(* 2*upperError, lowerError2 = 2*lowerError.  The ranks int(0.95*n) and    *)
(* int(0.05*n) are computed as the code computes them: an IEEE-754 double  *)
(* multiplication (round to nearest, ties to even) followed by truncation. *)
(* Densities and probability levels of the contour code are exact          *)
(* rationals [n |-> numerator, d |-> denominator].                         *)
(***************************************************************************)
EXTENDS Integers, Sequences, FiniteSets, TLC

VARIABLES
    data,               \* getBounds alone: the caller's sample vector (the argument object)
    ret,                \* what the direct call of getBounds last made returned (NoCall
                        \*   before one, and once corner is entered)
    pdf,                \* contour code alone: the KDE evaluated on the grid, flattened
    contour_out,        \* contour code alone: the results of lines 214-220, one per run made
    contour_levels,     \* the contour_levels argument: <<>> is None, <<l>> is the list l
    plot_data,          \* the plot collection, in iteration order: a sequence of
                        \*   [key, data, plot_bounds, label]
    contour_kde_args,   \* the dictionary passed (or defaulted) as contour_kde_args
    contour_plot_args,  \* the dictionary passed (or defaulted) as contour_plot_args
    bins,               \* the bins argument of the call of corner in progress
    show_bounds,        \* the show_bounds argument of the call of corner in progress
    pc,                 \* corner: "idle", "diag", "offdiag", "done", or the exception raised
    i,                  \* corner: the outer loop's index (line 143)
    j,                  \* corner: the inner loop's index (line 181)
    fig                 \* corner: the figure's axes, in order of creation

getBoundsVars == <<data, ret>>
contourVars == <<pdf, contour_out>>
cornerVars == <<plot_data, contour_kde_args, contour_plot_args, bins, show_bounds, pc, i, j, fig>>
vars == <<data, ret, pdf, contour_out, contour_levels, plot_data, contour_kde_args,
          contour_plot_args, bins, show_bounds, pc, i, j, fig>>

-----------------------------------------------------------------------------
(* Bounds of the model *)

MaxLen == 5         \* every sample vector up to this length is enumerated
MaxVal == 2         \* ... over the values 0..MaxVal
MaxRamp == 100      \* the ramps 1..n and n..1 are enumerated for n up to this
GridCells == 4      \* density grids of up to this many cells are enumerated
MaxDensity == 2     \* ... over the densities 1..MaxDensity and two peaks
MaxDim == 3         \* plot collections hold 1..MaxDim variables
SampleCount == 3    \* samples per variable of a plot collection

-----------------------------------------------------------------------------
(* IEEE-754 double arithmetic, on little-endian bit sequences *)

HexDigit(d) == <<d % 2, (d \div 2) % 2, (d \div 4) % 2, d \div 8>>

RECURSIVE HexToBits(_)
HexToBits(h) ==
    IF h = <<>> THEN <<>> ELSE HexToBits(Tail(h)) \o HexDigit(Head(h))

\* The literal 0.95 is the double 0x1.e666666666666p-1.
Double095 == [sig |-> HexToBits(<<14, 6, 6, 6, 6, 6, 6, 6, 6, 6, 6, 6, 6>>) \o <<1>>,
              exp |-> -1]

\* The literal 0.05 is the double 0x1.999999999999ap-5.
Double005 == [sig |-> HexToBits(<<9, 9, 9, 9, 9, 9, 9, 9, 9, 9, 9, 9, 10>>) \o <<1>>,
              exp |-> -5]

\* Exact product of a bit sequence and the integer n, schoolbook with carry.
RECURSIVE MulBits(_, _, _, _)
MulBits(bits, n, k, carry) ==
    IF k > Len(bits)
    THEN IF carry = 0 THEN <<>>
         ELSE <<carry % 2>> \o MulBits(bits, n, k, carry \div 2)
    ELSE LET t == bits[k] * n + carry
         IN  <<t % 2>> \o MulBits(bits, n, k + 1, t \div 2)

RECURSIVE IncBits(_)
IncBits(bits) ==
    IF bits = <<>> THEN <<1>>
    ELSE IF Head(bits) = 0 THEN <<1>> \o Tail(bits)
    ELSE <<0>> \o IncBits(Tail(bits))

RECURSIVE BitsToInt(_)
BitsToInt(bits) ==
    IF bits = <<>> THEN 0 ELSE Head(bits) + 2 * BitsToInt(Tail(bits))

\* Round an exact product to 53 significant bits, nearest, ties to even.  The
\* result keeps the scale of its argument (the dropped bits become zeros).
RoundToDouble(p) ==
    IF Len(p) <= 53 THEN p
    ELSE LET d      == Len(p) - 53
             kept   == SubSeq(p, d + 1, Len(p))
             guard  == p[d]
             sticky == \E k \in 1..(d - 1) : p[k] = 1
             up     == guard = 1 /\ (sticky \/ kept[1] = 1)
         IN  [k \in 1..d |-> 0] \o (IF up THEN IncBits(kept) ELSE kept)

\* int(x * n) for the double x and the integer n >= 0: the double product,
\* truncated.  x = sig * 2^(exp - 52), so 52 - exp bits are fractional.
IntOfProduct(x, n) ==
    IF n = 0 THEN 0
    ELSE LET r    == RoundToDouble(MulBits(x.sig, n, 1, 0))
             frac == 52 - x.exp
         IN  IF Len(r) <= frac THEN 0
             ELSE BitsToInt(SubSeq(r, frac + 1, Len(r)))


-----------------------------------------------------------------------------
(* numpy primitives used by getBounds *)

\* The sequence f as an explicit tuple of its values.
Tuple(f) == f \o <<>>

\* RankOf(a)[t]: the position a[t] takes in ascending order, the number of
\* values that precede it (the smaller ones, and the equal ones before it).
RankOf(a) ==
    Tuple([t \in 1..Len(a) |->
              1 + Cardinality({u \in 1..Len(a) :
                                  a[u] < a[t] \/ (a[u] = a[t] /\ u < t)})])

Placed(a, rank) == Tuple([k \in 1..Len(a) |-> a[CHOOSE t \in 1..Len(a) : rank[t] = k]])

\* np.sort(a): a new array holding a's values in ascending order.
NpSort(a) == Placed(a, RankOf(a))

\* Twice np.median(a), for non-empty a: the middle value, or the mean of the
\* two middle values, of the sorted array.
NpMedian2(a) ==
    LET s == NpSort(a)
        n == Len(a)
    IN  s[(n - 1) \div 2 + 1] + s[n \div 2 + 1]

\* a[k] of Python: 0-based, negative k counts from the end, anything else raises.
InRange(a, k) == -Len(a) <= k /\ k < Len(a)
Item(a, k) == IF k >= 0 THEN a[k + 1] ELSE a[Len(a) + k + 1]

-----------------------------------------------------------------------------
(* getBounds *)

\* The upper rank counted from 1, and the upper rank taken over n - 1 steps
\* (as an interpolating percentile would place it).
UpperRankOneBased(n) == IntOfProduct(Double095, n) + 1
UpperRankOfLast(n) == IF n = 0 THEN 0 ELSE IntOfProduct(Double095, n - 1)

\* int(0.95*data.size)
UpperRank(n) == IntOfProduct(Double095, n)

\* The lower rank with the upper rank's factor.
LowerRankPasted(n) == IntOfProduct(Double095, n)

\* int(0.05*data.size)
LowerRank(n) == IntOfProduct(Double005, n)

NoCall == [raised |-> "none", value |-> <<>>]
Raised(e) == [raised |-> e, value |-> <<>>]
Returned(v) == [raised |-> "", value |-> v]

\* The call as it would be with the argument sorted in place (data.sort()).
GetBoundsSortsArgument(arg) ==
    LET n == Len(arg)
        sorted == NpSort(arg)
    IN  [arg |-> sorted,
         ret |-> IF ~InRange(sorted, UpperRank(n)) \/ ~InRange(sorted, LowerRank(n))
                 THEN Raised("IndexError")
                 ELSE Returned(<<NpMedian2(sorted),
                                 2 * Item(sorted, UpperRank(n)) - NpMedian2(sorted),
                                 NpMedian2(sorted) - 2 * Item(sorted, LowerRank(n))>>)]

\* One call getBounds(arg).  h1, h2, h3 are the array objects alive as the
\* call proceeds: object 1 is the caller's array; `local` is the object the local name
\* `data` is bound to after line 31.  The result is what the call returns (or
\* raises) and the caller's array as the call leaves it.
GetBoundsRun(arg) ==
    LET h1    == <<arg, arg>>                       \* l.31: np.array copies; object 2
        local == 2
        n     == Len(h1[local])                     \* data.size
        h2    == Append(h1, NpSort(h1[local]))      \* l.35: np.sort(data); object 3
        h3    == Append(h2, NpSort(h2[local]))      \* l.36: np.sort(data); object 4
    IN  IF ~InRange(h2[3], UpperRank(n))
        THEN [arg |-> h2[1], ret |-> Raised("IndexError")]
        ELSE IF ~InRange(h3[4], LowerRank(n))
        THEN [arg |-> h3[1], ret |-> Raised("IndexError")]
        ELSE LET med2     == NpMedian2(h3[local])            \* l.34
                 upperLim == Item(h3[3], UpperRank(n))       \* l.35
                 lowerLim == Item(h3[4], LowerRank(n))       \* l.36
             IN  [arg |-> h3[1],
                  ret |-> Returned(<<med2,
                                     2 * upperLim - med2,    \* l.39
                                     med2 - 2 * lowerLim>>)] \* l.40

\* The defaults of corner's keyword arguments (lines 49, 53, 60, 61).  A
\* dictionary is the set of its <<key, value>> items.
DefaultBins == 20
DefaultShowBounds == TRUE
DefaultKdeArgs == {}
DefaultPlotArgs == {<<"colors", "black">>}

\* No call of corner is in progress and no plot collection exists.
CornerIdle ==
    /\ plot_data = <<>>
    /\ contour_kde_args = DefaultKdeArgs /\ contour_plot_args = DefaultPlotArgs
    /\ bins = DefaultBins /\ show_bounds = DefaultShowBounds
    /\ pc = "idle" /\ i = 0 /\ j = 0 /\ fig = <<>>

-----------------------------------------------------------------------------
(* Specification SpecBounds: getBounds applied to each sample vector *)

Ramp(n) == [k \in 1..n |-> k]
RampDown(n) == [k \in 1..n |-> n + 1 - k]

SampleVectors ==
    UNION {[1..n -> 0..MaxVal] : n \in 0..MaxLen}
        \cup {Ramp(n) : n \in 1..MaxRamp} \cup {RampDown(n) : n \in 1..MaxRamp}

InitBounds ==
    /\ data \in SampleVectors
    /\ ret = NoCall
    /\ pdf = <<>> /\ contour_out = <<>> /\ contour_levels = <<>>
    /\ CornerIdle

getBounds ==
    /\ data' = GetBoundsRun(data).arg
    /\ ret' = GetBoundsRun(data).ret
    /\ UNCHANGED <<contourVars, contour_levels, cornerVars>>

NextBounds == getBounds

SpecBounds == InitBounds /\ [][NextBounds]_vars

-----------------------------------------------------------------------------
(* Exact rationals, kept normalised (positive denominator, lowest terms) *)

RECURSIVE Gcd(_, _)
Gcd(a, b) == IF b = 0 THEN a ELSE Gcd(b, a % b)

Abs(x) == IF x < 0 THEN -x ELSE x

Rat(n, d) ==
    LET g == Gcd(Abs(n), Abs(d))
        sgn == IF d < 0 THEN -1 ELSE 1
    IN  [n |-> sgn * (n \div g), d |-> sgn * (d \div g)]

RatOfInt(k) == [n |-> k, d |-> 1]
RatAdd(a, b) == Rat(a.n * b.d + b.n * a.d, a.d * b.d)
RatSub(a, b) == Rat(a.n * b.d - b.n * a.d, a.d * b.d)
RatMul(a, b) == Rat(a.n * b.n, a.d * b.d)
RatDiv(a, b) == Rat(a.n * b.d, a.d * b.n)
RatLess(a, b) == a.n * b.d < b.n * a.d
RatLeq(a, b) == a.n * b.d <= b.n * a.d

RECURSIVE RatInsert(_, _)
RatInsert(v, s) ==
    IF s = <<>> THEN <<v>>
    ELSE IF RatLeq(v, Head(s)) THEN <<v>> \o s
    ELSE <<Head(s)>> \o RatInsert(v, Tail(s))

\* np.sort on an array of reals
RECURSIVE RatSort(_)
RatSort(a) == IF a = <<>> THEN <<>> ELSE RatInsert(Head(a), RatSort(Tail(a)))

-----------------------------------------------------------------------------
(* The contour thresholds of a 2-D panel, lines 214-220 *)

Reverse(s) == [k \in 1..Len(s) |-> s[Len(s) + 1 - k]]

\* np.cumsum
RECURSIVE CumSum(_)
CumSum(s) ==
    IF s = <<>> THEN <<>>
    ELSE LET c == CumSum(SubSeq(s, 1, Len(s) - 1))
         IN  Append(c, (IF c = <<>> THEN 0 ELSE c[Len(c)]) + s[Len(s)])

\* np.interp(x, xp, fp) for increasing xp: fp[1] left of xp, fp[last] right of
\* it, and otherwise on the segment s with xp[s] <= x < xp[s+1]
\*     slope*(x - xp[s]) + fp[s],  slope = (fp[s+1] - fp[s]) / (xp[s+1] - xp[s]).
NpInterp(x, xp, fp) ==
    LET m == Len(xp)
    IN  IF RatLess(xp[m], x) THEN RatOfInt(fp[m])
        ELSE IF RatLess(x, xp[1]) THEN RatOfInt(fp[1])
        ELSE LET seg == CHOOSE k \in 1..m :
                          /\ RatLeq(xp[k], x)
                          /\ k < m => RatLess(x, xp[k + 1])
             IN  IF seg = m \/ xp[seg] = x THEN RatOfInt(fp[seg])
                 ELSE LET slope == RatDiv(RatOfInt(fp[seg + 1] - fp[seg]),
                                          RatSub(xp[seg + 1], xp[seg]))
                      IN  RatAdd(RatMul(slope, RatSub(x, xp[seg])), RatOfInt(fp[seg]))

\* The sorted densities without the reversal [::-1].
SortedPdfAscending(p) == NpSort(p)

\* sorted_pdf = np.sort(pdf)[::-1]
SortedPdf(p) == Reverse(NpSort(p))

\* cdf = np.cumsum(sorted_pdf); cdf /= cdf[-1]
Cdf(sorted_pdf) ==
    LET c == CumSum(sorted_pdf)
    IN  [k \in 1..Len(c) |-> Rat(c[k], c[Len(c)])]

\* levels = [np.interp(l, cdf, sorted_pdf) for l in contour_levels], and the
\* levels= argument of ax.contour, np.sort(levels)
ContourRun(p, lvls) ==
    LET sorted_pdf == SortedPdf(p)
        cdf        == Cdf(sorted_pdf)
        levels     == [k \in 1..Len(lvls) |->
                          NpInterp(lvls[k], cdf, sorted_pdf)]
    IN  [sorted_pdf |-> sorted_pdf, cdf |-> cdf, levels |-> levels,
         drawn |-> RatSort(levels)]

-----------------------------------------------------------------------------
(* Specification SpecContour: lines 214-220 applied to each density grid *)

Densities == 1..MaxDensity \cup {10, 20}

PdfGrids == UNION {[1..n -> Densities] : n \in 1..GridCells}

L68 == Rat(68, 100)
L95 == Rat(95, 100)

LevelSets ==
    {<<L68, L95>>, <<L95, L68>>, <<Rat(1, 2)>>, <<Rat(0, 1), Rat(1, 1)>>,
     <<L68, L68>>, <<Rat(9, 10), Rat(1, 2), Rat(99, 100)>>}

InitContour ==
    /\ pdf \in PdfGrids
    /\ contour_levels \in {<<l>> : l \in LevelSets}
    /\ contour_out = <<>>
    /\ data = <<>> /\ ret = NoCall
    /\ CornerIdle

Contour ==
    /\ contour_levels # <<>>                                       \* l.204
    /\ contour_out' = <<ContourRun(pdf, contour_levels[1])>>
    /\ UNCHANGED <<pdf, contour_levels, getBoundsVars, cornerVars>>

NextContour == Contour

SpecContour == InitContour /\ [][NextContour]_vars


-----------------------------------------------------------------------------
(* corner, lines 127-245 *)

\* np.linspace(lo, hi, num): num evenly spaced values, lo first and hi last.
Linspace(lo, hi, num) ==
    [k \in 1..num |->
        IF num = 1 THEN RatOfInt(lo)
        ELSE Rat(lo * (num - 1) + (k - 1) * (hi - lo), num - 1)]

\* ndim = len(keys), keys = list(plot_data)
Ndim == Len(plot_data)

\* The third argument of add_subplot at line 146.
DiagIndex(ndim, ii) == 1 + (ndim + 1) * ii

\* The index of the cell mirrored across the diagonal.
OffDiagIndexTransposed(ndim, ii, jj) == 1 + (ndim + 1) * ii + (jj + 1)

\* The third argument of add_subplot at line 184.
OffDiagIndex(ndim, ii, jj) == 1 + (ndim + 1) * ii + (jj + 1) * ndim

\* fig.add_subplot(ndim, ndim, index) accepts the indices 1..ndim*ndim, which
\* number the grid's cells row by row, and raises ValueError for any other.
ValidIndex(ndim, index) == 1 <= index /\ index <= ndim * ndim

\* An axes object as add_subplot creates it: nothing drawn, default ticks.
NewAxes(index) ==
    [index |-> index, kind |-> "", x |-> "", y |-> "",
     hist_bins |-> <<>>, step_bins |-> <<>>, gridsize |-> 0, extent |-> <<>>,
     xlim |-> <<>>, ylim |-> <<>>, title |-> <<>>,
     xlabel |-> "", ylabel |-> "", xticklabels |-> "default", yticklabels |-> "default",
     contour |-> <<>>]

\* The bins= argument of both ax.hist calls (lines 149, 156).
HistEdges(v, b) == Linspace(v.plot_bounds[1], v.plot_bounds[2], b)

\* Lines 172-180, the x-axis of a diagonal panel.
DiagXAxis(ax, v, ii, ndim) ==
    IF ii = ndim - 1
    THEN [ax EXCEPT !.xlabel = v.label]
    ELSE [ax EXCEPT !.xticklabels = "off"]

\* Lines 166-170, the y-axis of a diagonal panel.
DiagYAxis(ax, v, ii) ==
    IF ii # 0 THEN [ax EXCEPT !.yticklabels = "off"] ELSE ax

\* Lines 148-164, what is drawn in the diagonal panel of variable v; t is the
\* value getBounds returned for the title (<<>> without show_bounds).
DiagDrawn(ax, v, b, t) ==
    [ax EXCEPT !.kind = "hist", !.x = v.key,
               !.hist_bins = HistEdges(v, b),         \* l.148-154
               !.step_bins = HistEdges(v, b),         \* l.155-160
               !.xlim = v.plot_bounds,                \* l.162
               !.title = t]                           \* l.164

\* The 2-D panel with the two variables exchanged.
HexbinSwapped(ax, vx, vy, b) ==
    [ax EXCEPT !.kind = "hexbin", !.x = vy.key, !.y = vx.key, !.gridsize = b,
               !.extent = vy.plot_bounds \o vx.plot_bounds,
               !.xlim = vy.plot_bounds, !.ylim = vx.plot_bounds]

\* Lines 186-201 and 223-225, the 2-D panel of vx (plot_data[key]) against vy
\* (plot_data[k]).
Hexbin(ax, vx, vy, b) ==
    [ax EXCEPT !.kind = "hexbin", !.x = vx.key, !.y = vy.key,
               !.gridsize = b,                                    \* l.191
               !.extent = vx.plot_bounds \o vy.plot_bounds,       \* l.194-198
               !.xlim = vx.plot_bounds,                           \* l.224
               !.ylim = vy.plot_bounds]                           \* l.225

\* The y-axis labelled in every column.
OffDiagYAxisEveryColumn(ax, vy, ii) == [ax EXCEPT !.ylabel = vy.label]

\* Lines 228-233, the y-axis of a 2-D panel.
OffDiagYAxis(ax, vy, ii) ==
    IF ii = 0
    THEN [ax EXCEPT !.ylabel = vy.label]
    ELSE [ax EXCEPT !.yticklabels = "off"]

\* The x-axis labelled on the first row below the diagonal instead of the last.
OffDiagXLabelledFirst(ax, vx, ii, jj, ndim) ==
    IF jj = 0
    THEN [ax EXCEPT !.xlabel = vx.label]
    ELSE [ax EXCEPT !.xticklabels = "off"]

\* Lines 235-240, the x-axis of a 2-D panel.
OffDiagXAxis(ax, vx, ii, jj, ndim) ==
    IF jj = ndim - ii - 2
    THEN [ax EXCEPT !.xlabel = vx.label]
    ELSE [ax EXCEPT !.xticklabels = "off"]

\* Lines 204-220: the contour drawn in a 2-D panel whose KDE evaluates to kde
\* on the grid (<<>> when contour_levels is None).
ContourDrawn(ax, kde) ==
    IF contour_levels = <<>> THEN ax
    ELSE [ax EXCEPT !.contour =
             <<[levels |-> ContourRun(kde, contour_levels[1]).drawn,
                args |-> contour_plot_args]>>]

-----------------------------------------------------------------------------
(* Specification Spec: calls of corner and getBounds on a plot collection *)

KeyNames == <<"x", "y", "z", "w">>
LabelNames == <<"$x$", "$y$", "$z$", "$w$">>

\* The variable spec of the q-th key: SampleCount unsorted samples, its own
\* display bounds, its own label.
VariableSpec(q) ==
    [key |-> KeyNames[q],
     data |-> [t \in 1..SampleCount |-> (t * (q + 2)) % 7],
     plot_bounds |-> <<-q, 7 + q>>,
     label |-> LabelNames[q]]

\* Every ordering of 1..MaxDim distinct variables.
PlotCollections ==
    LET Q == 1..(IF MaxDim < Len(KeyNames) THEN MaxDim ELSE Len(KeyNames))
        orders == UNION {{f \in [1..n -> Q] :
                            \A a, b \in 1..n : a # b => f[a] # f[b]} : n \in 1..MaxDim}
    IN  {[k \in 1..Len(f) |-> VariableSpec(f[k])] : f \in orders}

\* What gaussian_kde may evaluate to on the grid (the estimator is external).
KdeOutputs == {<<20, 1>>, <<2, 1, 3>>}

BinsChoices == {10, 50}

Init ==
    /\ plot_data \in PlotCollections
    /\ contour_levels \in {<<>>, <<(<<L68, L95>>)>>}
    /\ contour_kde_args = DefaultKdeArgs
    /\ contour_plot_args = DefaultPlotArgs
    /\ bins = DefaultBins /\ show_bounds = DefaultShowBounds
    /\ pc = "idle" /\ i = 0 /\ j = 0 /\ fig = <<>>
    /\ data = <<>> /\ ret = NoCall /\ pdf = <<>> /\ contour_out = <<>>

\* getBounds(plot_data[key]['data']) called directly on the q-th variable.
getBoundsOfVariable(q) ==
    /\ pc = "idle"
    /\ LET run == GetBoundsRun(plot_data[q].data)
       IN  /\ plot_data' = [plot_data EXCEPT ![q].data = run.arg]
           /\ ret' = run.ret
    /\ UNCHANGED <<data, contourVars, contour_levels, contour_kde_args,
                   contour_plot_args, bins, show_bounds, pc, i, j, fig>>

\* corner(plot_data, bins=b, show_bounds=sb, ...) is entered: lines 127-140.
corner(b, sb) ==
    /\ pc = "idle"
    /\ bins' = b /\ show_bounds' = sb
    /\ fig' = <<>>                                      \* l.132
    /\ i' = 0 /\ j' = 0
    /\ pc' = "diag"                                     \* ndim >= 1: l.143 enters the loop
    /\ ret' = NoCall
    /\ UNCHANGED <<data, contourVars, contour_levels, plot_data, contour_kde_args,
                   contour_plot_args>>

\* One pass of the outer loop up to its inner loop: lines 143-180.
Diagonal ==
    /\ pc = "diag"
    /\ LET v     == plot_data[i + 1]
           index == DiagIndex(Ndim, i)
           run   == GetBoundsRun(v.data)
       IN  IF ~ValidIndex(Ndim, index)
           THEN pc' = "ValueError" /\ UNCHANGED <<plot_data, fig, i, j>>
           ELSE IF show_bounds /\ run.ret.raised # ""
           THEN /\ pc' = run.ret.raised
                /\ plot_data' = [plot_data EXCEPT ![i + 1].data = run.arg]
                /\ UNCHANGED <<fig, i, j>>
           ELSE /\ plot_data' = IF show_bounds
                                THEN [plot_data EXCEPT ![i + 1].data = run.arg]
                                ELSE plot_data
                /\ fig' = Append(fig,
                        DiagXAxis(
                            DiagYAxis(
                                DiagDrawn(NewAxes(index), v, bins,
                                          IF show_bounds THEN run.ret.value ELSE <<>>),
                                v, i),
                            v, i, Ndim))
                /\ IF i = Ndim - 1
                   THEN pc' = "done" /\ UNCHANGED <<i, j>>     \* l.143 ends; l.242-245
                   ELSE pc' = "offdiag" /\ j' = 0 /\ UNCHANGED i
    /\ UNCHANGED <<getBoundsVars, contourVars, contour_levels, contour_kde_args,
                   contour_plot_args, bins, show_bounds>>

\* One pass of the inner loop: lines 181-240.  kde is what the estimator
\* evaluates to on the grid.
OffDiagonal(kde) ==
    /\ pc = "offdiag"
    /\ LET vx    == plot_data[i + 1]                     \* plot_data[key]
           vy    == plot_data[i + 1 + j + 1]             \* plot_data[k], k = keys[i+1:][j]
           index == OffDiagIndex(Ndim, i, j)
       IN  IF ~ValidIndex(Ndim, index)
           THEN pc' = "ValueError" /\ UNCHANGED <<fig, i, j>>
           ELSE /\ fig' = Append(fig,
                        OffDiagXAxis(
                            OffDiagYAxis(
                                ContourDrawn(Hexbin(NewAxes(index), vx, vy, bins), kde),
                                vy, i),
                            vx, i, j, Ndim))
                /\ IF j = Ndim - i - 2
                   THEN pc' = "diag" /\ i' = i + 1 /\ j' = 0
                   ELSE pc' = "offdiag" /\ j' = j + 1 /\ UNCHANGED i
    /\ UNCHANGED <<getBoundsVars, contourVars, contour_levels, plot_data,
                   contour_kde_args, contour_plot_args, bins, show_bounds>>

\* The caller takes the figure (or the exception); the call's frame is gone.
Return ==
    /\ pc \notin {"idle", "diag", "offdiag"}
    /\ pc' = "idle"
    /\ fig' = <<>> /\ i' = 0 /\ j' = 0
    /\ bins' = DefaultBins /\ show_bounds' = DefaultShowBounds
    /\ UNCHANGED <<getBoundsVars, contourVars, contour_levels, plot_data,
                   contour_kde_args, contour_plot_args>>

Next ==
    \/ \E q \in 1..Ndim : getBoundsOfVariable(q)
    \/ \E b \in BinsChoices, sb \in BOOLEAN : corner(b, sb)
    \/ Diagonal
    \/ \E kde \in KdeOutputs : OffDiagonal(kde)
    \/ Return

Spec == Init /\ [][Next]_vars


-----------------------------------------------------------------------------
(* Properties of getBounds, checked under SpecBounds *)

\* The value of rank k (0-based) among the values of a in ascending order,
\* stated by counting: fewer than k+1 values are below it, at least k+1 are
\* not above it.
OrderStat(a, k) ==
    CHOOSE v \in {a[t] : t \in 1..Len(a)} :
        /\ Cardinality({t \in 1..Len(a) : a[t] < v}) <= k
        /\ k < Cardinality({t \in 1..Len(a) : a[t] <= v})

\* C1: for a non-empty vector of size n getBounds returns (median, upper_width,
\* lower_width) with upper_width = s[floor(0.95 n)] - median and lower_width =
\* median - s[floor(0.05 n)], s the samples in ascending order, no
\* interpolation; for [1, ..., 100] the median is 50.5, the upper limit 96 and
\* the lower limit 6 (in halves: 101, 2*96 - 101 = 91, 101 - 2*6 = 89).
C1_RankWidths ==
    ret.raised = "" =>
        LET n    == Len(data)
            med2 == ret.value[1]
        IN  /\ n >= 1
            /\ med2 = OrderStat(data, (n - 1) \div 2) + OrderStat(data, n \div 2)
            /\ ret.value[2] = 2 * OrderStat(data, (95 * n) \div 100) - med2
            /\ ret.value[3] = med2 - 2 * OrderStat(data, (5 * n) \div 100)
            /\ data = Ramp(100) => ret.value = <<101, 91, 89>>

C1_Witness ==
    /\ ret.raised = ""
    /\ data = Ramp(100)
    /\ ret.value = <<101, 91, 89>>

\* C2: for every non-empty vector, duplicates and the sizes 1..5 included, both
\* widths getBounds returns are >= 0.
C2_WidthsNonNegative ==
    ret.raised = "" => ret.value[2] >= 0 /\ ret.value[3] >= 0

C2_Witness ==
    /\ ret.raised = ""
    /\ data = <<2, 0, 2>>
    /\ ret.value = <<4, 0, 4>>

\* C10: for n >= 1 the two ranks satisfy 0 <= floor(0.05 n) <= floor(0.95 n)
\* <= n-1 and the call returns; for n = 0 rank 0 is out of range and the call
\* raises instead of returning.
C10_RanksInRange ==
    LET n == Len(data)
    IN  /\ n >= 1 => /\ 0 <= LowerRank(n)
                     /\ LowerRank(n) <= UpperRank(n)
                     /\ UpperRank(n) <= n - 1
                     /\ LowerRank(n) = (5 * n) \div 100
                     /\ UpperRank(n) = (95 * n) \div 100
        /\ ret # NoCall => (ret.raised = "IndexError" <=> n = 0)
        /\ ret # NoCall => (ret.raised = "" <=> n >= 1)

C10_Witness ==
    /\ Len(data) = 0
    /\ ret.raised = "IndexError"

-----------------------------------------------------------------------------
(* Properties of the contour thresholds, checked under SpecContour *)

RECURSIVE SumSeq(_)
SumSeq(s) == IF s = <<>> THEN 0 ELSE Head(s) + SumSeq(Tail(s))

Count(s, v) == Cardinality({t \in 1..Len(s) : s[t] = v})
SameItems(s, t) ==
    /\ Len(s) = Len(t)
    /\ \A k \in 1..Len(s) : Count(s, s[k]) = Count(t, s[k])

\* t is the density at cumulative probability x on the polyline through the
\* points (cdf[k], fp[k]): fp[1] left of the first point, else on a segment.
OnInverseLookup(x, t, cdf, fp) ==
    IF RatLess(x, cdf[1]) THEN t = RatOfInt(fp[1])
    ELSE IF RatLess(cdf[Len(cdf)], x) THEN t = RatOfInt(fp[Len(fp)])
    ELSE \E k \in 1..Len(cdf) :
            \/ x = cdf[k] /\ t = RatOfInt(fp[k])
            \/ /\ k < Len(cdf)
               /\ RatLess(cdf[k], x) /\ RatLess(x, cdf[k + 1])
               /\ RatMul(RatSub(t, RatOfInt(fp[k])), RatSub(cdf[k + 1], cdf[k]))
                    = RatMul(RatSub(x, cdf[k]), RatOfInt(fp[k + 1] - fp[k]))

\* The grid is non-degenerate: its (positive) values are not all equal.
NonDegenerate(p) == \E a, b \in 1..Len(p) : p[a] # p[b]

\* What C5 says of a run apart from the comparison of the two thresholds.
ThresholdsWellFormed(out, lv) ==
    /\ Len(out.levels) = Len(lv)
    /\ Len(out.drawn) = Len(lv)
    /\ SameItems(out.sorted_pdf, pdf)
    /\ \A k \in 1..(Len(pdf) - 1) : out.sorted_pdf[k] >= out.sorted_pdf[k + 1]
    /\ \A k \in 1..Len(pdf) :
          out.cdf[k] = Rat(SumSeq(SubSeq(out.sorted_pdf, 1, k)), SumSeq(pdf))
    /\ out.cdf[Len(pdf)] = RatOfInt(1)
    /\ \A k \in 1..Len(lv) : OnInverseLookup(lv[k], out.levels[k], out.cdf, out.sorted_pdf)
    /\ SameItems(out.drawn, out.levels)
    /\ \A k \in 1..(Len(lv) - 1) : RatLeq(out.drawn[k], out.drawn[k + 1])
    /\ \A a, b \in 1..Len(lv) :
          RatLeq(lv[a], lv[b]) => RatLeq(out.levels[b], out.levels[a])

\* C5 as claimed: k levels give k thresholds by inverse lookup on the
\* descending values' normalised cumulative sum, drawn in ascending order, a
\* higher level never giving a higher threshold; and for [0.68, 0.95] on a
\* non-degenerate grid the 0.68 threshold is strictly greater than the 0.95 one.
C5_AsClaimed ==
    contour_out # <<>> =>
        LET out == contour_out[1]
            lv  == contour_levels[1]
        IN  /\ ThresholdsWellFormed(out, lv)
            /\ (lv = <<L68, L95>> /\ NonDegenerate(pdf))
                  => RatLess(out.levels[2], out.levels[1])

\* C5 as amended: as claimed, but for [0.68, 0.95] the 0.68 threshold is
\* greater than or equal to the 0.95 one, and strictly greater when the grid's
\* values are pairwise distinct and the largest is less than 95% of their sum.
C5_Amended ==
    contour_out # <<>> =>
        LET out == contour_out[1]
            lv  == contour_levels[1]
        IN  /\ ThresholdsWellFormed(out, lv)
            /\ lv = <<L68, L95>> =>
                  /\ RatLeq(out.levels[2], out.levels[1])
                  /\ ( /\ \A a, b \in 1..Len(pdf) : a # b => pdf[a] # pdf[b]
                       /\ \A a \in 1..Len(pdf) : 100 * pdf[a] < 95 * SumSeq(pdf) )
                        => RatLess(out.levels[2], out.levels[1])

C5_Witness ==
    /\ contour_out # <<>>
    /\ contour_levels[1] = <<L68, L95>>
    /\ pdf = <<1, 2, 10>>
    /\ RatLess(contour_out[1].levels[2], contour_out[1].levels[1])
    /\ contour_out[1].drawn = <<contour_out[1].levels[2], contour_out[1].levels[1]>>


-----------------------------------------------------------------------------
(* Properties of corner, checked under Spec *)

\* The grid cell of an axes object: add_subplot numbers the cells of the
\* Ndim x Ndim grid from 1, row by row.
Row(ax) == (ax.index - 1) \div Ndim
Col(ax) == (ax.index - 1) % Ndim

Panels == {fig[k] : k \in 1..Len(fig)}
Diagonals == {k \in 1..Len(fig) : Row(fig[k]) = Col(fig[k])}
LowerTriangulars == {k \in 1..Len(fig) : Row(fig[k]) > Col(fig[k])}

\* C3: for N >= 1 variables corner creates exactly N diagonal panels and
\* N(N-1)/2 strictly-lower-triangular panels of the N x N grid: every subplot
\* index requested is in 1..N*N, no cell receives two panels, every panel is at
\* a cell with row >= col, none at a cell with row < col.
C3_LowerTriangularGrid ==
    /\ pc # "ValueError"
    /\ \A k \in 1..Len(fig) :
          /\ fig[k].index \in 1..(Ndim * Ndim)
          /\ Row(fig[k]) >= Col(fig[k])
          /\ \A m \in 1..Len(fig) : m # k => fig[m].index # fig[k].index
    /\ pc = "done" =>
          /\ Cardinality(Diagonals) = Ndim
          /\ 2 * Cardinality(LowerTriangulars) = Ndim * (Ndim - 1)
          /\ Len(fig) = Cardinality(Diagonals) + Cardinality(LowerTriangulars)
          /\ \A k \in Diagonals : fig[k].kind = "hist"
          /\ \A k \in LowerTriangulars : fig[k].kind = "hexbin"

C3_Witness ==
    /\ pc = "done"
    /\ Ndim = 3
    /\ Cardinality(Diagonals) = 3
    /\ Cardinality(LowerTriangulars) = 3

\* C4 as claimed: whatever bins is, every diagonal panel's histogram has
\* bins+1 bin edges, evenly spaced from the variable's lower display bound to
\* its upper one, the same for the filled and the step histogram.
C4_AsClaimed ==
    \A ax \in Panels :
        ax.kind = "hist" =>
            LET e == ax.hist_bins
            IN  /\ Len(e) = bins + 1
                /\ ax.step_bins = e
                /\ e[1] = RatOfInt(ax.xlim[1])
                /\ e[Len(e)] = RatOfInt(ax.xlim[2])
                /\ \A k \in 2..(Len(e) - 1) :
                      RatSub(e[k + 1], e[k]) = RatSub(e[k], e[k - 1])

\* C6: no call of getBounds or corner changes its inputs: the plot collection
\* (samples, bounds, labels, key order) and the contour_levels,
\* contour_kde_args and contour_plot_args arguments stay as they were.
C6_InputsUnchanged ==
    [][/\ plot_data' = plot_data
       /\ contour_levels' = contour_levels
       /\ contour_kde_args' = contour_kde_args
       /\ contour_plot_args' = contour_plot_args]_vars

C6_Witness ==
    /\ pc = "done"
    /\ show_bounds
    /\ contour_levels # <<>>
    /\ Len(fig) = 6
    /\ \A q \in 1..Ndim : fig[CHOOSE k \in Diagonals : Col(fig[k]) = q - 1].title # <<>>
    /\ \A q \in 1..Ndim : plot_data[q].data # NpSort(plot_data[q].data)

\* C7: a panel has an x-axis label iff it is in the bottom row N-1; each column
\* then has exactly one x-labelled panel, labelled with the column's variable;
\* every panel above the bottom row has its x tick labels suppressed.
C7_XLabelsBottomRow ==
    /\ \A ax \in Panels :
          /\ ax.xlabel # "" <=> Row(ax) = Ndim - 1
          /\ ax.xlabel # "" => ax.xlabel = plot_data[Col(ax) + 1].label
          /\ Row(ax) < Ndim - 1 => ax.xticklabels = "off"
    /\ pc = "done" =>
          \A c \in 0..(Ndim - 1) :
              Cardinality({k \in 1..Len(fig) :
                              Col(fig[k]) = c /\ fig[k].xlabel # ""}) = 1

C7_Witness ==
    /\ pc = "done"
    /\ Ndim = 3
    /\ \E a, b \in Panels :
          /\ a.kind = "hist" /\ a.xlabel = plot_data[3].label
          /\ b.kind = "hexbin" /\ Col(b) = 1 /\ b.xlabel = plot_data[2].label
    /\ \E a \in Panels : a.kind = "hexbin" /\ a.xticklabels = "off"

\* C8: every panel in a column other than the first has its y tick labels
\* suppressed; a panel has a y-axis label iff it is a 2-D panel in column 0,
\* and the label is that of the panel's row variable.
C8_YAnnotationFirstColumn ==
    \A ax \in Panels :
        /\ Col(ax) # 0 => ax.yticklabels = "off"
        /\ ax.ylabel # "" <=> (ax.kind = "hexbin" /\ Col(ax) = 0)
        /\ ax.ylabel # "" => ax.ylabel = plot_data[Row(ax) + 1].label

C8_Witness ==
    /\ pc = "done"
    /\ Ndim = 3
    /\ \E a, b, c \in Panels :
          /\ a.kind = "hexbin" /\ Col(a) = 0 /\ a.ylabel = plot_data[3].label
          /\ b.kind = "hexbin" /\ Col(b) = 1 /\ b.yticklabels = "off"
          /\ c.kind = "hist" /\ Col(c) = 0 /\ c.ylabel = "" /\ c.yticklabels = "default"

\* C9: the variable at position i is drawn at the diagonal cell (i, i); for
\* positions c < r the 2-D panel at (row r, column c) plots variable c on x
\* against variable r on y, with variable c's display bounds as x extent and x
\* limits and variable r's as y extent and y limits; every unordered pair of
\* variables is plotted exactly once.
C9_OrderFixesGrid ==
    /\ \A ax \in Panels :
          /\ ax.kind = "hist" =>
                /\ Row(ax) = Col(ax)
                /\ ax.x = plot_data[Col(ax) + 1].key
                /\ ax.xlim = plot_data[Col(ax) + 1].plot_bounds
          /\ ax.kind = "hexbin" =>
                /\ Col(ax) < Row(ax)
                /\ ax.x = plot_data[Col(ax) + 1].key
                /\ ax.y = plot_data[Row(ax) + 1].key
                /\ ax.extent = plot_data[Col(ax) + 1].plot_bounds
                                  \o plot_data[Row(ax) + 1].plot_bounds
                /\ ax.xlim = plot_data[Col(ax) + 1].plot_bounds
                /\ ax.ylim = plot_data[Row(ax) + 1].plot_bounds
    /\ pc = "done" =>
          /\ \A q \in 1..Ndim :
                \E k \in 1..Len(fig) :
                    fig[k].kind = "hist" /\ fig[k].x = plot_data[q].key
          /\ \A c, r \in 1..Ndim :
                c < r =>
                    Cardinality({k \in 1..Len(fig) :
                        /\ fig[k].kind = "hexbin"
                        /\ {fig[k].x, fig[k].y} = {plot_data[c].key, plot_data[r].key}}) = 1

C9_Witness ==
    /\ pc = "done"
    /\ Ndim = 3
    /\ \E ax \in Panels :
          /\ Row(ax) = 2 /\ Col(ax) = 1
          /\ ax.x = plot_data[2].key /\ ax.y = plot_data[3].key
          /\ ax.extent = plot_data[2].plot_bounds \o plot_data[3].plot_bounds

=============================================================================
